---- MODULE Spec2Model ----
(***************************************************************************)
(* CanvasComponent (src/src/app/components/canvas/canvas.component.ts):    *)
(* a drawing canvas with a capped undo stack, a redo stack and snapshot    *)
(* restoration through asynchronous image decodes.                         *)
(*                                                                         *)
(* The canvas is one row of Width pixels; a pixel is transparent (T) or    *)
(* holds a colour.  Pixel c spans the coordinates c to c + 1; pointer      *)
(* positions are the coordinates 0 .. Width.  A snapshot is the data URL   *)
(* of the row, modelled as the sequence of its pixels.                     *)
(* Every image whose src was set and whose onload has not yet run is an    *)
(* entry of `pending`, in request order; onload callbacks run in any       *)
(* order.                                                                  *)
(*                                                                         *)
(* The identifier `event` in onMouseUp and onTouchEnd (lines 81, 122) is   *)
(* the browser's global window.event: the event being dispatched, i.e.    *)
(* the release event itself.                                               *)
(*                                                                         *)
(* Variables last, rt, cu, ur and sess are history variables: they record *)
(* what the last handler was and what the state was before it, and are    *)
(* read by no handler.                                                     *)
(***************************************************************************)
EXTENDS Integers, Sequences, FiniteSets, TLC

\* ---------------------------------------------------------------- bounds
Width == 1
MaxPending == 1
MaxDepth == 2
CapPending == 2
KeysDepth == 3

\* ------------------------------------------------------------- constants
HistoryCap == 10

Cells == 0 .. (Width - 1)
Pos == 0 .. Width
NoPos == 0 - 1
T == "T"
StrokeColors == {"k", "r"}
BgColors == {"w", "g"}
Shapes == {"freehand", "line", "rectangle", "circle"}

VARIABLES
    pc,               \* "constructed" | "ready" | "failed" (ngOnInit threw)
    drawing,          \* this.drawing
    selectedShape,    \* this.selectedShape
    startX,           \* this.startX (and startY: one row)
    undoStack,        \* this.undoStack
    redoStack,        \* this.redoStack
    backgroundColor,  \* this.backgroundColor
    strokeStyle,      \* this.ctx.strokeStyle
    path,             \* the context's current path
    raster,           \* the canvas's pixels
    pending,          \* images loading: [kind, img], in request order
    last,             \* history: the last handler and the state before it
    rt,               \* history: snapshot(); undo(); redo() in progress
    cu,               \* history: clear(); undo() in progress
    ur,               \* history: only undo/redo since the decodes were done
    sess              \* history: press and latest move of the open session

vars == <<pc, drawing, selectedShape, startX, undoStack, redoStack,
          backgroundColor, strokeStyle, path, raster, pending,
          last, rt, cu, ur, sess>>

\* ------------------------------------------------------ canvas primitives
Min(a, b) == IF a < b THEN a ELSE b
Max(a, b) == IF a < b THEN b ELSE a

\* The pixels a stroked segment from a to b paints (none if it has no length)
Seg(a, b) == {c \in Cells : Min(a, b) <= c /\ c < Max(a, b)}

EmptyPath == [sub |-> NoPos, cur |-> NoPos, cov |-> {}]

\* ctx.clearRect(0, 0, width, height)
clearRect == [c \in Cells |-> T]

\* ctx.fillRect(0, 0, width, height) with fillStyle = color
fillRect(color) == [c \in Cells |-> color]

\* ctx.moveTo(x) on path p
moveTo(p, x) == [p EXCEPT !.sub = x, !.cur = x]

\* ctx.lineTo(x) on path p: with no subpath it only starts one at x
lineTo(p, x) ==
    IF p.cur = NoPos THEN moveTo(p, x)
    ELSE [p EXCEPT !.cur = x, !.cov = p.cov \cup Seg(p.cur, x)]

\* ctx.closePath() on path p
closePath(p) == IF p.cur = NoPos THEN p ELSE [p EXCEPT !.cur = p.sub]

\* ctx.stroke() of path p on pixels r with strokeStyle = color
stroke(r, p, color) == [c \in Cells |-> IF c \in p.cov THEN color ELSE r[c]]

\* ctx.drawImage(img, 0, 0) on pixels r: source-over compositing
drawImage(img, r) == [c \in Cells |-> IF img[c] = T THEN r[c] ELSE img[c]]

\* canvas.toDataURL(): the encoded row
toDataURL(r) == [i \in 1 .. Width |-> r[i - 1]]

\* the pixels of the image decoded from a data URL
Decode(url) == [c \in Cells |-> url[c + 1]]

\* drawShape's path: beginPath, then the primitive of the selected tool
shapePath(shape, x0, x1) ==
    CASE shape = "line" ->
           lineTo(moveTo(EmptyPath, x0), x1)
      [] shape = "rectangle" ->
           [sub |-> x0, cur |-> x0, cov |-> Seg(x0, x1)]
      [] shape = "circle" ->
           LET r == Max(x1 - x0, x0 - x1) IN
           [sub |-> x0 + r, cur |-> x0 + r,
            cov |-> IF r = 0 THEN {} ELSE {x0 - r, x0 + r - 1} \cap Cells]
      [] OTHER -> EmptyPath

\* drawShape(startX, _, endX, _): the pixels after beginPath ... stroke
drawShape(r, shape, x0, x1, color) == stroke(r, shapePath(shape, x0, x1), color)

\* ------------------------------------------------------------- history
\* What JavaScript gives for array[-1] and for pop() of an empty array
Undefined == <<"undefined">>

\* stack[stack.length - 1]
Top(s) == IF s = <<>> THEN Undefined ELSE s[Len(s)]
Front(s) == SubSeq(s, 1, Len(s) - 1)
Remove(s, i) == SubSeq(s, 1, i - 1) \o SubSeq(s, i + 1, Len(s))

\* saveState with pop() for shift(): the overflow drops the newest entry
saveStateUndo_pop(stack, url) ==
    LET pushed == Append(stack, url) IN
    IF Len(pushed) > HistoryCap THEN Front(pushed) ELSE pushed

\* saveState's undoStack: push, then shift when longer than the capacity
saveStateUndo(stack, url) ==
    LET pushed == Append(stack, url) IN
    IF Len(pushed) > HistoryCap THEN Tail(pushed) ELSE pushed

\* saveState without its last line: the redo stack is kept
saveStateRedo_kept(stack) == stack

\* saveState's redoStack
saveStateRedo(stack) == <<>>

\* A load that is refused while another image is still loading
Request_busy(kind, url) ==
    IF url = Undefined \/ pending # <<>> THEN pending
    ELSE Append(pending, [kind |-> kind, img |-> url])

\* new Image(); img.src = url; img.onload = ...: no onload ever follows
\* img.src = undefined
Request(kind, url) ==
    IF url = Undefined THEN pending
    ELSE Append(pending, [kind |-> kind, img |-> url])

\* ------------------------------------------------------ history variables
NoRt == [phase |-> "none", stk |-> <<>>, ras |-> clearRect]
NoCu == [phase |-> "none", len |-> 0, top |-> <<>>, ras |-> clearRect]
NoSess == [press |-> NoPos, move |-> NoPos, tool |-> "none"]

Was(op) ==
    [op |-> op, undoLen |-> Len(undoStack), hadRedo |-> redoStack # <<>>,
     drawing |-> drawing, snap |-> FALSE,
     from |-> NoPos, to |-> NoPos, press |-> NoPos, move |-> NoPos,
     tool |-> "none"]

\* What `last` holds after a handler that is no history operation
Idle ==
    [op |-> "idle", undoLen |-> 0, hadRedo |-> FALSE, drawing |-> FALSE,
     snap |-> FALSE, from |-> NoPos, to |-> NoPos, press |-> NoPos, move |-> NoPos,
     tool |-> "none"]

\* What `last` holds after a handler that called saveState
Saved(op) == [Was(op) EXCEPT !.snap = TRUE]

Released(op, x) ==
    [Saved(op) EXCEPT !.from = startX, !.to = x,
                    !.press = sess.press, !.move = sess.move,
                    !.tool = sess.tool]

TypeOK ==
    /\ pc \in {"constructed", "ready", "failed"}
    /\ drawing \in BOOLEAN
    /\ selectedShape \in Shapes
    /\ startX \in Pos
    /\ Len(undoStack) <= HistoryCap
    /\ backgroundColor \in BgColors
    /\ strokeStyle \in StrokeColors
    /\ raster \in [Cells -> {T} \cup BgColors \cup StrokeColors]
    /\ Len(pending) <= Max(MaxPending, CapPending)

Init ==
    /\ pc = "constructed"
    /\ drawing = FALSE
    /\ selectedShape = "freehand"
    /\ startX = 0
    /\ undoStack = <<>>
    /\ redoStack = <<>>
    /\ backgroundColor = "w"
    /\ strokeStyle = "k"
    /\ path = EmptyPath
    /\ raster = clearRect
    /\ pending = <<>>
    /\ last = Idle
    /\ rt = NoRt
    /\ cu = NoCu
    /\ ur = FALSE
    /\ sess = NoSess

\* ------------------------------------------------------------- handlers
\* saveState() when the canvas holds pixels r
saveState(r) ==
    /\ undoStack' = saveStateUndo(undoStack, toDataURL(r))
    /\ redoStack' = saveStateRedo(redoStack)

Snapped == [phase |-> "snap", stk |-> undoStack', ras |-> clearRect]

\* ngOnInit with a fallback: without a context it still takes a snapshot
ngOnInit_fallback(ok) ==
    /\ pc = "constructed"
    /\ cu' = NoCu
    /\ ur' = FALSE
    /\ pc' = IF ok THEN "ready" ELSE "failed"
    /\ raster' = IF ok THEN fillRect(backgroundColor) ELSE raster
    /\ saveState(raster')
    /\ last' = Saved("init")
    /\ rt' = Snapped
    /\ UNCHANGED <<drawing, selectedShape, startX, backgroundColor,
                   strokeStyle, path, pending, sess>>

\* ngOnInit -> initializeCanvas: getContext('2d') gives a context (ok) or null
ngOnInit(ok) ==
    /\ pc = "constructed"
    /\ cu' = NoCu
    /\ ur' = FALSE
    /\ IF ok
       THEN /\ pc' = "ready"
            /\ raster' = fillRect(backgroundColor)
            /\ saveState(raster')
            /\ last' = Saved("init")
            /\ rt' = Snapped
       ELSE /\ pc' = "failed"
            /\ last' = Was("init")
            /\ rt' = NoRt
            /\ UNCHANGED <<raster, undoStack, redoStack>>
    /\ UNCHANGED <<drawing, selectedShape, startX, backgroundColor,
                   strokeStyle, path, pending, sess>>

\* onMouseDown / onTouchStart: x is the position getCanvasCoordinates returns
press(x) ==
    /\ pc = "ready"
    /\ startX' = x
    /\ drawing' = TRUE
    /\ path' = IF selectedShape = "freehand" THEN moveTo(EmptyPath, x) ELSE path
    /\ sess' = IF drawing THEN sess
               ELSE [press |-> x, move |-> NoPos, tool |-> selectedShape]
    /\ last' = Idle
    /\ rt' = NoRt
    /\ cu' = NoCu
    /\ ur' = FALSE
    /\ UNCHANGED <<pc, selectedShape, undoStack, redoStack, backgroundColor,
                   strokeStyle, raster, pending>>

onMouseDown(x) == press(x)
onTouchStart(x) == press(x)

\* redraw()'s pending list: one more image when the undo stack has a top
redraw ==
    IF Len(undoStack) > 0 THEN Request("redraw", Top(undoStack)) ELSE pending

\* onMouseMove / onTouchMove
move(x) ==
    /\ pc = "ready"
    /\ last' = Idle
    /\ rt' = NoRt
    /\ cu' = NoCu
    /\ ur' = FALSE
    /\ IF drawing
       THEN /\ sess' = [sess EXCEPT !.move = x]
            /\ IF selectedShape = "freehand"
               THEN /\ path' = lineTo(path, x)
                    /\ raster' = stroke(raster, path', strokeStyle)
                    /\ UNCHANGED pending
               ELSE /\ pending' = redraw
                    /\ path' = shapePath(selectedShape, startX, x)
                    /\ raster' = drawShape(clearRect, selectedShape, startX, x,
                                           strokeStyle)
       ELSE UNCHANGED <<sess, path, raster, pending>>
    /\ UNCHANGED <<pc, drawing, selectedShape, startX, undoStack, redoStack,
                   backgroundColor, strokeStyle>>

onMouseMove(x) == move(x)
onTouchMove(x) == move(x)

\* The body of onMouseUp / onTouchEnd once getCanvasCoordinates returned x
release(op, x) ==
    /\ drawing' = FALSE
    /\ IF selectedShape # "freehand"
       THEN /\ path' = shapePath(selectedShape, startX, x)
            /\ raster' = drawShape(raster, selectedShape, startX, x, strokeStyle)
       ELSE /\ path' = closePath(path)
            /\ UNCHANGED raster
    /\ saveState(raster')
    /\ last' = Released(op, x)
    /\ rt' = Snapped
    /\ cu' = NoCu
    /\ ur' = FALSE
    /\ sess' = NoSess
    /\ UNCHANGED <<pc, selectedShape, startX, backgroundColor, strokeStyle,
                   pending>>

\* A handler that returns at once, or throws before it changed anything
nothing(op) ==
    /\ last' = Was(op)
    /\ rt' = NoRt
    /\ cu' = NoCu
    /\ ur' = FALSE
    /\ UNCHANGED <<pc, drawing, selectedShape, startX, undoStack, redoStack,
                   backgroundColor, strokeStyle, path, raster, pending, sess>>

\* onMouseUp, bound to mouseup and mouseleave; x is the release event's position
onMouseUp(x) ==
    /\ pc = "ready"
    /\ IF drawing THEN release("onMouseUp", x) ELSE nothing("onMouseUp")

\* onTouchEnd, bound to touchend and touchcancel; t is the position of
\* event.touches[0], NoPos when the list is empty: touch.clientX then throws
onTouchEnd(t) ==
    /\ pc = "ready"
    /\ IF drawing /\ t # NoPos
       THEN release("onTouchEnd", t) ELSE nothing("onTouchEnd")

\* onShapeSelected(shape)
onShapeSelected(shape) ==
    /\ pc = "ready"
    /\ selectedShape' = shape
    /\ sess' = IF drawing /\ shape # sess.tool
               THEN [sess EXCEPT !.tool = "mixed"] ELSE sess
    /\ last' = Idle
    /\ rt' = NoRt
    /\ cu' = NoCu
    /\ ur' = FALSE
    /\ UNCHANGED <<pc, drawing, startX, undoStack, redoStack, backgroundColor,
                   strokeStyle, path, raster, pending>>

\* changeColor(color)
changeColor(color) ==
    /\ pc = "ready"
    /\ strokeStyle' = color
    /\ last' = Idle
    /\ rt' = NoRt
    /\ cu' = NoCu
    /\ ur' = FALSE
    /\ UNCHANGED <<pc, drawing, selectedShape, startX, undoStack, redoStack,
                   backgroundColor, path, raster, pending, sess>>

\* The state before a clear that found history, kept for what follows it
Cleared ==
    IF Len(undoStack) > 0
    THEN [phase |-> "clear", len |-> Len(undoStack), top |-> Top(undoStack),
          ras |-> raster]
    ELSE NoCu

\* clearCanvas()
clearCanvas ==
    /\ pc = "ready"
    /\ raster' = fillRect(backgroundColor)
    /\ saveState(raster')
    /\ last' = Saved("clear")
    /\ rt' = Snapped
    /\ cu' = Cleared
    /\ ur' = FALSE
    /\ UNCHANGED <<pc, drawing, selectedShape, startX, backgroundColor,
                   strokeStyle, path, pending, sess>>

\* onBackgroundColorSelected(color)
onBackgroundColorSelected(color) ==
    /\ pc = "ready"
    /\ backgroundColor' = color
    /\ raster' = fillRect(color)
    /\ saveState(raster')
    /\ last' = Saved("background")
    /\ rt' = Snapped
    /\ cu' = NoCu
    /\ ur' = FALSE
    /\ UNCHANGED <<pc, drawing, selectedShape, startX, strokeStyle, path,
                   pending, sess>>

\* undoCanvas testing length > 0: the last entry can be popped
canUndo_any(stack) == Len(stack) > 0

\* undoCanvas testing for length > 0
canUndo_nonempty(stack) == Len(stack) > 0

\* undoCanvas's test
canUndo(stack) == Len(stack) > 1

\* redoCanvas without its test
canRedo_always(stack) == TRUE

\* redoCanvas's test
canRedo(stack) == Len(stack) > 0

\* undoCanvas's stacks, and the snapshot it hands to restoreCanvas
\* (undoCanvasRedo_unshift: unshift for push, the popped entry goes first)
undoCanvasUndo(undo) == Front(undo)
undoCanvasRedo_unshift(undo, redo) == <<Top(undo)>> \o redo
undoCanvasRedo(undo, redo) == Append(redo, Top(undo))
undoCanvasRestores(undo) == Top(undoCanvasUndo(undo))

\* redoCanvas's stacks, and the snapshot it hands to restoreCanvas
redoCanvasRedo(redo) == Front(redo)
redoCanvasUndo(undo, redo) == Append(undo, Top(redo))
redoCanvasRestores(redo) == Top(redo)

\* A run of undo/redo calls that began when no image was loading
Running == ur \/ pending = <<>>

\* undoCanvas(); it touches no context, so it also runs after ngOnInit threw
undoCanvas ==
    /\ pc # "constructed"
    /\ IF canUndo(undoStack)
       THEN /\ redoStack' = undoCanvasRedo(undoStack, redoStack)
            /\ undoStack' = undoCanvasUndo(undoStack)
            /\ pending' = Request("restore", undoCanvasRestores(undoStack))
            /\ ur' = Running
       ELSE UNCHANGED <<undoStack, redoStack, pending, ur>>
    /\ last' = Was("undo")
    /\ rt' = IF rt.phase = "snap"
             THEN [rt EXCEPT !.phase = "undo", !.ras = raster] ELSE NoRt
    /\ cu' = IF cu.phase = "clear" THEN [cu EXCEPT !.phase = "undo"] ELSE NoCu
    /\ UNCHANGED <<pc, drawing, selectedShape, startX, backgroundColor,
                   strokeStyle, path, raster, sess>>

\* redoCanvas(); it touches no context, so it also runs after ngOnInit threw
redoCanvas ==
    /\ pc # "constructed"
    /\ IF canRedo(redoStack)
       THEN /\ undoStack' = redoCanvasUndo(undoStack, redoStack)
            /\ redoStack' = redoCanvasRedo(redoStack)
            /\ pending' = Request("restore", redoCanvasRestores(redoStack))
            /\ ur' = Running
       ELSE UNCHANGED <<undoStack, redoStack, pending, ur>>
    /\ last' = Was("redo")
    /\ rt' = IF rt.phase = "undo" THEN [rt EXCEPT !.phase = "redo"] ELSE NoRt
    /\ cu' = NoCu
    /\ UNCHANGED <<pc, drawing, selectedShape, startX, backgroundColor,
                   strokeStyle, path, raster, sess>>

\* The pixels after the onload callback of a pending image: restoreCanvas
\* clears first, redraw draws over what the canvas holds by then
onloadRaster(e, r) ==
    IF e.kind = "restore"
    THEN drawImage(Decode(e.img), clearRect)
    ELSE drawImage(Decode(e.img), r)

\* img.onload that also resets the context's stroke colour to its default
onload_resets(i) ==
    /\ i \in 1 .. Len(pending)
    /\ raster' = onloadRaster(pending[i], raster)
    /\ pending' = Remove(pending, i)
    /\ strokeStyle' = "k"
    /\ last' = Idle
    /\ UNCHANGED <<pc, drawing, selectedShape, startX, undoStack, redoStack,
                   backgroundColor, path, rt, cu, ur, sess>>

\* img.onload of the i-th pending image
onload(i) ==
    /\ i \in 1 .. Len(pending)
    /\ raster' = onloadRaster(pending[i], raster)
    /\ pending' = Remove(pending, i)
    /\ last' = Idle
    /\ UNCHANGED <<pc, drawing, selectedShape, startX, undoStack, redoStack,
                   backgroundColor, strokeStyle, path, rt, cu, ur, sess>>

\* The visible canvas after downloadCanvas drew on it instead of on the
\* temporary canvas: the white fill covers it
downloadCanvasRaster_inplace(r) == fillRect("w")

\* The visible canvas after downloadCanvas: it is only read, as the source
\* of tempCtx.drawImage; the fill and the drawing go to the temporary canvas
downloadCanvasRaster(r) == r

\* downloadCanvas(); it does not use this.ctx
downloadCanvas ==
    /\ pc # "constructed"
    /\ raster' = downloadCanvasRaster(raster)
    /\ last' = Was("download")
    /\ rt' = NoRt
    /\ cu' = NoCu
    /\ ur' = FALSE
    /\ UNCHANGED <<pc, drawing, selectedShape, startX, undoStack, redoStack,
                   backgroundColor, strokeStyle, path, pending, sess>>

\* KeyboardEvent: the modifier flags and the key value
KeyNames == {"z", "Z", "y", "Y", "Delete", "Backspace", "a"}
KeyEvents == [ctrlKey : BOOLEAN, shiftKey : BOOLEAN, key : KeyNames]
ClearKeys == {"Delete", "Backspace"}

\* String.prototype.toLowerCase on a key value
toLowerCase(k) ==
    CASE k = "Z" -> "z"
      [] k = "Y" -> "y"
      [] k = "Delete" -> "delete"
      [] k = "Backspace" -> "backspace"
      [] OTHER -> k

\* handleKeyboardEvent's tests when the first one ignores the Shift key
keyCommand_anyShift(e) ==
    IF e.ctrlKey /\ toLowerCase(e.key) = "z" THEN "undo"
    ELSE IF \/ e.ctrlKey /\ toLowerCase(e.key) = "y"
            \/ e.ctrlKey /\ e.shiftKey /\ toLowerCase(e.key) = "z" THEN "redo"
    ELSE IF e.key \in ClearKeys THEN "clear"
    ELSE "none"

\* handleKeyboardEvent's tests, in its order: the branch the event takes
keyCommand(e) ==
    IF e.ctrlKey /\ ~e.shiftKey /\ toLowerCase(e.key) = "z" THEN "undo"
    ELSE IF \/ e.ctrlKey /\ toLowerCase(e.key) = "y"
            \/ e.ctrlKey /\ e.shiftKey /\ toLowerCase(e.key) = "z" THEN "redo"
    ELSE IF e.key \in ClearKeys THEN "clear"
    ELSE "none"

\* handleKeyboardEvent(event), bound to document:keydown
handleKeyboardEvent(e) ==
    CASE keyCommand(e) = "undo" -> undoCanvas
      [] keyCommand(e) = "redo" -> redoCanvas
      [] keyCommand(e) = "clear" -> clearCanvas
      [] OTHER -> pc # "constructed" /\ nothing("keydown")

\* ------------------------------------------------------- specifications
\* Spec: every handler with every input, while the undo stack is shorter
\* than MaxDepth and fewer than MaxPending images are loading.
Shallow == Len(undoStack) < MaxDepth
Free == Len(pending) < MaxPending

Next ==
    \/ \E ok \in BOOLEAN : ngOnInit(ok)
    \/ \E x \in Pos : onMouseDown(x)
    \/ \E x \in Pos :
          (Free \/ ~drawing \/ selectedShape = "freehand") /\ onMouseMove(x)
    \/ \E x \in Pos : (Shallow \/ ~drawing) /\ onMouseUp(x)
    \/ \E x \in Pos : onTouchStart(x)
    \/ \E x \in Pos :
          (Free \/ ~drawing \/ selectedShape = "freehand") /\ onTouchMove(x)
    \/ \E t \in Pos \cup {NoPos} : (Shallow \/ ~drawing) /\ onTouchEnd(t)
    \/ \E shape \in Shapes : onShapeSelected(shape)
    \/ \E color \in StrokeColors : changeColor(color)
    \/ \E color \in BgColors : Shallow /\ onBackgroundColorSelected(color)
    \/ Shallow /\ clearCanvas
    \/ (Free \/ ~canUndo(undoStack)) /\ undoCanvas
    \/ (Free \/ ~canRedo(redoStack)) /\ redoCanvas
    \/ downloadCanvas
    \/ \E e \in KeyEvents :
          (Free /\ (Shallow \/ e.key \notin ClearKeys)) /\ handleKeyboardEvent(e)
    \/ \E i \in 1 .. MaxPending : onload(i)

Spec == Init /\ [][Next]_vars

\* SpecCap: the history operations up to and beyond the capacity of the undo
\* stack: clears with two background colours, undo, redo and the decodes.
FreeCap == Len(pending) < CapPending

NextCap ==
    \/ \E ok \in BOOLEAN : ngOnInit(ok)
    \/ \E color \in BgColors : onBackgroundColorSelected(color)
    \/ clearCanvas
    \/ (FreeCap \/ ~canUndo(undoStack)) /\ undoCanvas
    \/ (FreeCap \/ ~canRedo(redoStack)) /\ redoCanvas
    \/ \E i \in 1 .. CapPending : onload(i)

SpecCap == Init /\ [][NextCap]_vars

\* SpecDraw: freehand sessions by mouse and touch between the history
\* operations, with the default background colour.
NextDraw ==
    \/ \E ok \in BOOLEAN : ngOnInit(ok)
    \/ \E x \in Pos : onMouseDown(x)
    \/ \E x \in Pos : onMouseMove(x)
    \/ \E x \in Pos : (Shallow \/ ~drawing) /\ onMouseUp(x)
    \/ \E t \in Pos \cup {NoPos} : (Shallow \/ ~drawing) /\ onTouchEnd(t)
    \/ Shallow /\ onBackgroundColorSelected("w")
    \/ Shallow /\ clearCanvas
    \/ (Free \/ ~canUndo(undoStack)) /\ undoCanvas
    \/ (Free \/ ~canRedo(redoStack)) /\ redoCanvas
    \/ \E i \in 1 .. MaxPending : onload(i)

SpecDraw == Init /\ [][NextDraw]_vars

\* SpecKeys: the keyboard as the only way to undo, redo and clear, between
\* changes of the background colour, while the undo stack is shorter than
\* KeysDepth.
NextKeys ==
    \/ \E ok \in BOOLEAN : ngOnInit(ok)
    \/ \E color \in BgColors :
          Len(undoStack) < KeysDepth /\ onBackgroundColorSelected(color)
    \/ \E e \in KeyEvents :
          (Free /\ (Len(undoStack) < KeysDepth \/ e.key \notin ClearKeys))
          /\ handleKeyboardEvent(e)
    \/ \E i \in 1 .. MaxPending : onload(i)

SpecKeys == Init /\ [][NextKeys]_vars

\* SpecEvict: freehand strokes by mouse, from the left edge to a release at
\* the right edge, committed up to and beyond the capacity of the undo
\* stack and undone one restoration at a time.
NextEvict ==
    \/ \E ok \in BOOLEAN : ngOnInit(ok)
    \/ onMouseDown(0)
    \/ \E x \in Pos : onMouseMove(x)
    \/ onMouseUp(Width)
    \/ (Free \/ ~canUndo(undoStack)) /\ undoCanvas
    \/ \E i \in 1 .. MaxPending : onload(i)

SpecEvict == Init /\ [][NextEvict]_vars

\* ------------------------------------------------------------- claims
Core == <<undoStack, redoStack, raster, pending>>
Releases == {"onMouseUp", "onTouchEnd"}

\* C1: the undo stack never holds more than 10 snapshots, and a snapshot
\* pushed onto a stack of 10 removes exactly the first entry, keeps the
\* order of the others and comes last.
C1_UndoCapped ==
    [][ /\ Len(undoStack') <= 10
        /\ (last'.snap /\ Len(undoStack) = 10) =>
              undoStack' = Tail(undoStack) \o <<toDataURL(raster')>> ]_vars

\* C1 witness: a snapshot was pushed onto a stack of 10.
C1_Evicted == last.snap /\ last.undoLen = 10 /\ Len(undoStack) = 10

\* C2: every handler that takes a snapshot leaves the redo stack empty,
\* and a redo() right after it changes nothing.
C2_SnapshotClearsRedo ==
    [][ /\ last'.snap => redoStack' = <<>>
        /\ (last.snap /\ last'.op = "redo") => UNCHANGED Core ]_vars

\* C2 witness: the commit of a drawing session found a non-empty redo stack.
C2_RedoDiscarded ==
    last.snap /\ last.op = "onMouseUp" /\ last.hadRedo /\ redoStack = <<>>

\* C3: undo() on an undo stack of 0 or 1 entries changes neither stack nor
\* the raster and requests no decode.
C3_UndoAtFloor ==
    [][ (last'.op = "undo" /\ Len(undoStack) <= 1) => UNCHANGED Core ]_vars

\* C3 witness: undo() ran on a stack of one entry.
C3_UndoIgnored ==
    last.op = "undo" /\ last.undoLen = 1 /\ pc = "ready" /\ Len(undoStack) = 1

\* C4: redo() on an empty redo stack changes neither stack nor the raster
\* and requests no decode.
C4_RedoWhenEmpty ==
    [][ (last'.op = "redo" /\ redoStack = <<>>) => UNCHANGED Core ]_vars

\* C4 witness: redo() ran on an empty redo stack, with history to undo.
C4_RedoIgnored ==
    last.op = "redo" /\ ~last.hadRedo /\ Len(undoStack) > 1 /\ redoStack = <<>>

\* C5: after snapshot(); undo(); redo(), once no decode is pending, the undo
\* stack is the one the snapshot left, the redo stack is empty and the
\* raster is the one shown right before the undo, in every completion order.
C5_RoundTrip ==
    (rt.phase = "redo" /\ pending = <<>>) =>
        (undoStack = rt.stk /\ redoStack = <<>> /\ raster = rt.ras)

\* C6: after clear(); undo() on a non-empty history the top of
\* the undo stack is the top from before the clear and, once no decode is
\* pending, the raster is the raster shown right before the clear.
C6_ClearUndoRestoresView ==
    (cu.phase = "undo" /\ cu.len > 0) =>
        (Top(undoStack) = cu.top /\ (pending = <<>> => raster = cu.ras))

\* C7: after a committed action and any decode callbacks that follow it,
\* with no other handler in between, the undo stack is non-empty and its
\* last element is the snapshot of the visible raster.
C7_TopIsVisible ==
    rt.phase = "snap" =>
        (undoStack # <<>> /\ Top(undoStack) = toDataURL(raster))

\* C8: a release handler that finds a session active ends it and pushes
\* exactly one snapshot (mouseup and mouseleave run onMouseUp, touchend and
\* touchcancel run onTouchEnd).
C8_ReleaseCommits ==
    (last.op \in Releases /\ last.drawing) =>
        /\ ~drawing
        /\ last.snap
        /\ Len(undoStack) = last.undoLen + 1 \/ last.undoLen = 10

\* C9: the shape committed by the release of a non-freehand session ends
\* at the position of the session's latest move event and starts at the
\* position of the press that opened the session.
C9_EndIsLastMove ==
    (/\ last.op \in Releases /\ last.snap
     /\ selectedShape # "freehand" /\ last.move # NoPos) =>
        (last.to = last.move /\ last.from = last.press)

\* C10: after undo() and redo() calls that began with no decode pending,
\* once no decode is pending the raster is the snapshot on top of the undo
\* stack.
C10_SettlesOnTop ==
    (ur /\ pending = <<>>) => raster = Decode(Top(undoStack))

\* C11: the snapshot pushed by the release of a line, rectangle or circle
\* session is the snapshot committed before it plus one shape, the one from
\* the press position to the release position, whenever the images
\* requested by the session's move events finished loading.
C11_OneShapeOverCommitted ==
    (/\ last.op \in Releases /\ last.snap /\ last.move # NoPos
     /\ last.tool \in {"line", "rectangle", "circle"}
     /\ last.undoLen < 10) =>
        Top(undoStack) =
            toDataURL(drawShape(Decode(undoStack[last.undoLen]),
                                selectedShape, last.from, last.to, strokeStyle))

\* C12: ngOnInit without a 2D context throws before it touched anything:
\* both stacks stay empty, the canvas and the pending loads are unchanged,
\* and initialization never runs again; with a context it leaves exactly
\* one snapshot, that of the canvas filled with the background colour, in
\* the undo stack and an empty redo stack.
C12_InitAllOrNothing ==
    [][ /\ last'.op = "init" =>
              IF pc' = "failed"
              THEN /\ undoStack' = <<>> /\ redoStack' = <<>>
                   /\ ~last'.snap /\ UNCHANGED Core
              ELSE /\ pc' = "ready" /\ last'.snap
                   /\ undoStack' = <<toDataURL(fillRect(backgroundColor))>>
                   /\ redoStack' = <<>>
        /\ pc # "constructed" => (pc' = pc /\ last'.op # "init") ]_vars

\* C12 witness: initialization failed for want of a context.
C12_InitFailed ==
    pc = "failed" /\ last.op = "init" /\ undoStack = <<>> /\ raster = clearRect

\* C13: undoCanvas, redoCanvas and the onload of a pending image leave the
\* stroke colour, the background colour, the selected tool and the session
\* (drawing, start position, current path) as they were.
C13_RestoreKeepsSettings ==
    [][ (last'.op \in {"undo", "redo"} \/ Len(pending') < Len(pending)) =>
            UNCHANGED <<strokeStyle, backgroundColor, selectedShape,
                        drawing, startX, path>> ]_vars

\* C13 witness: an undo restored the snapshot taken with the white
\* background and the black stroke while green and red are selected.
C13_RestoredUnderOtherColors ==
    /\ ur /\ pending = <<>> /\ redoStack # <<>>
    /\ raster = fillRect("w") /\ backgroundColor = "g" /\ strokeStyle = "r"

\* C14: a keydown of Ctrl+Z without Shift is a step of undoCanvas; one of
\* Ctrl+Y or of Ctrl+Shift+Z is a step of redoCanvas and not one of
\* undoCanvas; one of Delete or Backspace is a step of clearCanvas; any
\* other keydown changes neither stack, nor the canvas, nor the loads.
C14_KeyDispatch ==
    [][ \A e \in KeyEvents : handleKeyboardEvent(e) =>
          LET z == e.key \in {"z", "Z"}
              y == e.key \in {"y", "Y"}
              del == e.key = "Delete" \/ e.key = "Backspace"
          IN  IF e.ctrlKey /\ z /\ ~e.shiftKey
                 THEN undoCanvas /\ last'.op = "undo"
              ELSE IF e.ctrlKey /\ (y \/ (z /\ e.shiftKey))
                 THEN redoCanvas /\ last'.op = "redo"
              ELSE IF del
                 THEN clearCanvas /\ last'.op = "clear"
              ELSE UNCHANGED Core /\ last'.op = "keydown" ]_vars

\* C14 witness: a key redid what a key had undone.
C14_RedoneByKey ==
    /\ last.op = "redo" /\ last.hadRedo /\ redoStack = <<>>
    /\ Len(undoStack) = KeysDepth

\* C20: downloadCanvas leaves both stacks, the canvas, the pending loads,
\* the colours, the selected tool and the session as they were.
C20_DownloadChangesNothing ==
    [][ last'.op = "download" =>
            UNCHANGED <<undoStack, redoStack, raster, pending, strokeStyle,
                        backgroundColor, selectedShape, drawing, startX,
                        path>> ]_vars

\* C20 witness: a download during a session, with an undone snapshot in
\* the redo stack and its restoration still loading.
C20_DownloadedMidSession ==
    /\ last.op = "download" /\ drawing /\ redoStack # <<>>
    /\ pending # <<>> /\ raster = fillRect("g")

\* C15: an effective undoCanvas or redoCanvas requests the restoration of
\* the new top of the undo stack whether or not other images are loading,
\* and the onload of a restoration puts its own snapshot on the canvas
\* whenever it runs, whatever was requested after it.
C15_NoBusyGuard ==
    [][ /\ (\/ last'.op = "undo" /\ Len(undoStack) > 1
            \/ last'.op = "redo" /\ redoStack # <<>>) =>
              pending' = Append(pending, [kind |-> "restore",
                                          img |-> Top(undoStack')])
        /\ \A i \in 1 .. Len(pending) :
              (/\ Len(pending') < Len(pending)
               /\ pending' = Remove(pending, i)
               /\ pending[i].kind = "restore") =>
                  raster' = Decode(pending[i].img) ]_vars

\* C15 witness: after undo and redo calls that began with nothing loading,
\* every image has loaded and the canvas shows a snapshot other than the
\* one restored last: its onload ran before that of an earlier request.
C15_EarlierOverwroteLater ==
    /\ ur /\ pending = <<>> /\ last.op = "idle"
    /\ raster # Decode(Top(undoStack))

\* A stack read from its top down
Reverse(s) == [i \in 1 .. Len(s) |-> s[Len(s) + 1 - i]]

\* C16: undoCanvas and redoCanvas only move the top snapshot from one
\* stack to the top of the other, so the undo stack followed by the
\* reversed redo stack is the same sequence before and after; and only
\* undoCanvas ever makes the redo stack longer.
C16_OnlyMoves ==
    [][ /\ last'.op \in {"undo", "redo"} =>
              undoStack' \o Reverse(redoStack') = undoStack \o Reverse(redoStack)
        /\ (last'.op = "undo" /\ Len(undoStack) > 1) =>
              /\ undoStack' = Front(undoStack)
              /\ redoStack' = Append(redoStack, Top(undoStack))
        /\ (last'.op = "redo" /\ redoStack # <<>>) =>
              /\ redoStack' = Front(redoStack)
              /\ undoStack' = Append(undoStack, Top(redoStack))
        /\ Len(redoStack') > Len(redoStack) => last'.op = "undo" ]_vars

\* C16 witness: two undos moved two different snapshots onto the redo stack.
C16_TwoMoved ==
    /\ last.op = "undo" /\ Len(redoStack) = 2 /\ Len(undoStack) > 1
    /\ redoStack[1] # redoStack[2]

\* C17: once ngOnInit succeeded the undo stack is never empty.
C17_NeverEmpty == pc = "ready" => Len(undoStack) >= 1

\* C17 witness: undo() refused on the single entry left after the initial
\* snapshot was evicted and everything above the floor undone.
C17_FloorAfterEviction ==
    /\ pc = "ready" /\ last.op = "undo" /\ last.undoLen = 1
    /\ undoStack = <<toDataURL(fillRect("g"))>>

\* C18: an undo stack of a single entry holds the snapshot of a canvas
\* filled uniformly with a background colour.
C18_FloorIsBaseline ==
    (pc = "ready" /\ Len(undoStack) = 1) =>
        \E color \in BgColors : undoStack[1] = toDataURL(fillRect(color))

\* C19: a move or release handler that finds no session active changes
\* neither the stacks, nor the canvas, nor the pending loads, nor the
\* session state; and no session is active once a release handler ran.
C19_NoSessionNoEffect ==
    [][ /\ (/\ ~drawing
            /\ \/ \E x \in Pos : onMouseMove(x) \/ onTouchMove(x) \/ onMouseUp(x)
               \/ \E t \in Pos \cup {NoPos} : onTouchEnd(t)) =>
              UNCHANGED <<undoStack, redoStack, raster, pending, drawing,
                          startX, path>>
        /\ last'.op \in Releases => ~drawing' ]_vars
====
